---- MODULE Spec2Model ----
(***************************************************************************)
(* A model of the HackerRank API client (src/hackerrank.py): the request   *)
(* construction layer (mkrequest), the pagination loop (call_api), the     *)
(* request operations get/put/post/patch/delete/options with their error   *)
(* handling and dry-run mode, and the question-name cache.                 *)
(*                                                                         *)
(* The server is the environment: each request is answered by a response   *)
(* chosen from Responses (an HTTP error raised by urlopen, a 204, or a     *)
(* 200/429 with a JSON body).                                              *)
(*                                                                         *)
(* Argument lists are lists of (key, value) pairs, as every caller in the  *)
(* file builds them (the branch of mkrequest for an argument given as one  *)
(* string is left out), JSON bodies are dicts, and the output that only    *)
(* self.verbose switches on is not recorded.                               *)
(***************************************************************************)
EXTENDS Integers, Sequences, FiniteSets, TLC

\* ------------------------------------------------------------------ bounds
MaxPages == 3        \* longest 'next' chain the server serves for one call
MaxData == 1         \* most records in the 'data' list of one page
MaxLookups == 2      \* cap of the per-question count of successful lookups

\* --------------------------------------------------------- program constants
MAX_PER_PAGE == 50

\* ------------------------------------------------------------ python values
\* A value of an argument list: an int, a str or a bool.
IntV(n) == [t |-> "int", s |-> "", n |-> n]
StrV(s) == [t |-> "str", s |-> s, n |-> 0]
BoolV(b) == [t |-> "bool", s |-> "", n |-> IF b THEN 1 ELSE 0]

\* URLs.  abs: the text contains '://'; pre: the API base URL was put in
\* front of it; path: which resource/page is named (0: no path text);
\* hasq: the text contains '?'; query: the encoded pairs after the '?'.
NoneURL == [none |-> TRUE, abs |-> FALSE, pre |-> FALSE, path |-> 0, hasq |-> FALSE, query |-> <<>>]
EmptyURL == [none |-> FALSE, abs |-> FALSE, pre |-> FALSE, path |-> 0, hasq |-> FALSE, query |-> <<>>]
MkURL(abs, path, hasq) ==
  [none |-> FALSE, abs |-> abs, pre |-> FALSE, path |-> path, hasq |-> hasq, query |-> <<>>]

\* Python truthiness of a url: None and '' are false.
TruthyURL(u) == u # NoneURL /\ u # EmptyURL

\* The parsed JSON body of a response, and the empty list [] that call_api
\* starts from.  next.k is "absent" (no 'next' key), "null", "empty" ('')
\* or "url"; name is "-" when the body has no 'name' key.
EmptyList == [kind |-> "list", hasData |-> FALSE, data |-> <<>>,
              next |-> [k |-> "absent", u |-> NoneURL], name |-> "-", other |-> FALSE]
NoneValue == [kind |-> "None", hasData |-> FALSE, data |-> <<>>,
              next |-> [k |-> "absent", u |-> NoneURL], name |-> "-", other |-> FALSE]
Dict(hasData, data, next, name, other) ==
  [kind |-> "dict", hasData |-> hasData, data |-> data, next |-> next, name |-> name, other |-> other]

\* Python truthiness of a result: [] , None and {} are false.
Truthy(x) ==
  /\ x.kind = "dict"
  /\ (x.hasData \/ x.next.k # "absent" \/ x.name # "-" \/ x.other)

\* The records held under 'data' (none when there is no 'data' key).
Records(x) == IF x.hasData THEN x.data ELSE <<>>

\* ------------------------------------------------------------ mkrequest
\* has_limit: does the argument list hold a pair whose key is 'limit'?
has_limit(arglist) == \E i \in 1..Len(arglist) : arglist[i][1] = "limit"

\* str(v) as urlencode applies it to a value.
StrOf(v) ==
  IF v.t = "int" THEN ToString(v.n)
  ELSE IF v.t = "bool" THEN (IF v.n = 1 THEN "True" ELSE "False")
  ELSE v.s

\* urllib.parse.urlencode(arglist, doseq=True): every pair of the list, in
\* order, with its value turned into text.
urlencode(arglist) == [i \in 1..Len(arglist) |-> <<arglist[i][1], StrOf(arglist[i][2])>>]

\* A value as it stands in the JSON text after the replacement of '"true"'
\* by 'true': the string "true" has become the JSON literal true.
JSONValue(v) == IF v = StrV("true") THEN BoolV(TRUE) ELSE v

\* json.dumps of the dict built from the pairs (a later pair with the same
\* key overwrites an earlier one): the object as a set of key/value members.
json_dumps(arglist) ==
  { <<arglist[i][1], JSONValue(arglist[i][2])>> :
      i \in { k \in 1..Len(arglist) :
                \A j \in (k+1)..Len(arglist) : arglist[j][1] # arglist[k][1] } }

NoBody == [kind |-> "none", json |-> {}, form |-> <<>>]
JSONBody(obj) == [kind |-> "json", json |-> obj, form |-> <<>>]
FormBody(pairs) == [kind |-> "form", json |-> {}, form |-> pairs]

\* mkrequest_arglist without the has_limit test: the page size is appended
\* on every request.
mkrequest_arglist_always_appends(arglist, use_JSON_data) ==
  IF use_JSON_data THEN arglist
  ELSE Append(arglist, <<"limit", IntV(MAX_PER_PAGE)>>)

\* The argument list as mkrequest leaves it (the list object is shared with
\* call_api, so the appended 'limit' pair stays for the next page).
mkrequest_arglist(arglist, use_JSON_data) ==
  IF use_JSON_data \/ has_limit(arglist) THEN arglist
  ELSE Append(arglist, <<"limit", IntV(MAX_PER_PAGE)>>)

\* mkrequest_url without the test for '?': the arguments of a GET are
\* appended to a URL that already has a query.
mkrequest_url_appends_again(method, url, arglist, use_JSON_data) ==
  LET u1 == IF url.abs THEN url ELSE [url EXCEPT !.pre = TRUE]
      args == mkrequest_arglist(arglist, use_JSON_data)
  IN  IF ~use_JSON_data /\ method = "GET"
        THEN [u1 EXCEPT !.hasq = TRUE, !.query = u1.query \o urlencode(args)]
        ELSE u1

\* mkrequest_url with the plausible slip "the query string is added for
\* every method and encoding".
mkrequest_url_always_query(method, url, arglist, use_JSON_data) ==
  LET u1 == IF url.abs THEN url ELSE [url EXCEPT !.pre = TRUE]
  IN  IF ~u1.hasq THEN [u1 EXCEPT !.hasq = TRUE, !.query = urlencode(arglist)] ELSE u1

\* The URL mkrequest requests.
mkrequest_url(method, url, arglist, use_JSON_data) ==
  LET u1 == IF url.abs THEN url ELSE [url EXCEPT !.pre = TRUE]
      args == mkrequest_arglist(arglist, use_JSON_data)
  IN  IF ~use_JSON_data /\ method = "GET" /\ ~u1.hasq
        THEN [u1 EXCEPT !.hasq = TRUE, !.query = urlencode(args)]
        ELSE u1

\* The body mkrequest sends.
mkrequest_data(method, arglist, use_JSON_data) ==
  IF use_JSON_data THEN JSONBody(json_dumps(arglist))
  ELSE IF method = "GET" THEN NoBody
  ELSE FormBody(urlencode(mkrequest_arglist(arglist, use_JSON_data)))

\* mkrequest_headers with the plausible slip "the JSON branch rebuilds the
\* header dict and drops Authorization".
mkrequest_headers_json_only(tok, use_JSON_data) ==
  IF use_JSON_data
    THEN [auth |-> <<"-", <<>> >>, ctype |-> "application/json"]
    ELSE [auth |-> <<"Bearer", tok>>, ctype |-> "-"]

\* The headers mkrequest sends.
mkrequest_headers(tok, use_JSON_data) ==
  [auth |-> <<"Bearer", tok>>,
   ctype |-> IF use_JSON_data THEN "application/json" ELSE "-"]

\* The request handed to urlopen.
mkrequest(tok, method, url, arglist, use_JSON_data) ==
  [method |-> method,
   url |-> mkrequest_url(method, url, arglist, use_JSON_data),
   data |-> mkrequest_data(method, arglist, use_JSON_data),
   headers |-> mkrequest_headers(tok, use_JSON_data)]

\* ------------------------------------------------------------- call_api
\* accumulate with the plausible slip "a page without 'data' replaces entries".
accumulate_takes_any_page(entries, data) ==
  IF ~Truthy(entries) THEN data
  ELSE IF data.hasData
    THEN (IF entries.hasData
            THEN [entries EXCEPT !.data = entries.data \o data.data]
            ELSE data)
  ELSE data

\* accumulate with the plausible slip "the latest page replaces entries".
accumulate_replaces(entries, data) ==
  IF ~Truthy(entries) THEN data
  ELSE IF data.hasData THEN data
  ELSE entries

\* entries after one more parsed page.
accumulate(entries, data) ==
  IF ~Truthy(entries) THEN data
  ELSE IF data.hasData
    THEN (IF entries.hasData
            THEN [entries EXCEPT !.data = entries.data \o data.data]
            ELSE data)
  ELSE entries

\* The page could not be merged ("can't concatenate!" is printed).
cant_concatenate(entries, data) == Truthy(entries) /\ ~data.hasData

\* next_url with the plausible slip "all_pages is not consulted".
next_url_always_follows(data, all_pages) ==
  LET u == IF data.next.k = "url" THEN data.next.u
           ELSE IF data.next.k = "empty" THEN EmptyURL
           ELSE NoneURL
  IN  IF u = EmptyURL THEN NoneURL ELSE u

\* url after a parsed page.
next_url(data, all_pages) ==
  LET u == IF data.next.k = "url" THEN data.next.u
           ELSE IF data.next.k = "empty" THEN EmptyURL
           ELSE NoneURL
  IN  IF u = EmptyURL \/ ~all_pages THEN NoneURL ELSE u

\* ------------------------------------------------------------ environment
\* Contents of ~/.hackerrank_api_token as a sequence of characters/words;
\* Unreadable stands for a file that cannot be opened.
Unreadable == <<"<unreadable>">>
TokenFiles == { <<"tokA", "\n">>, Unreadable }
Whitespace == {" ", "\n"}

\* str.strip(): drop leading and trailing whitespace.
RECURSIVE lstrip(_)
lstrip(s) == IF s # <<>> /\ Head(s) \in Whitespace THEN lstrip(Tail(s)) ELSE s
RECURSIVE rstrip(_)
rstrip(s) ==
  IF s # <<>> /\ s[Len(s)] \in Whitespace THEN rstrip(SubSeq(s, 1, Len(s) - 1)) ELSE s
strip(s) == rstrip(lstrip(s))

Unset == <<>>       \* self.token was never assigned

\* The value __init__ leaves in self.token.
init_token(file) == IF file = Unreadable THEN Unset ELSE strip(file)

Names == {"nameA", "nameB"}
Qids == {1, 2}
QuestionPath(q) == 100 + q

\* Endpoints a caller passes: relative, relative with a query, absolute, ''.
StartURLs == { MkURL(FALSE, 1, FALSE), MkURL(FALSE, 1, TRUE), MkURL(TRUE, 1, FALSE), EmptyURL }

\* Argument lists a caller passes.
ArgLists ==
  { <<>>,
    << <<"limit", IntV(5)>> >>,
    << <<"k", StrV("v")>>, <<"k", StrV("true")>> >> }

\* The fields argument of get: "-" is None.
FieldsArgs == {"-", "id,name"}

\* The calls of get that are made: <<url, arglist, fields, all_pages>>.
GetCalls ==
  (StartURLs \X {<<>>} \X FieldsArgs \X BOOLEAN)
  \cup ({MkURL(FALSE, 1, FALSE)} \X ArgLists \X {"-"} \X BOOLEAN)

\* The calls of put, post, patch, delete and options that are made:
\* <<url, arglist>>.
ArgCalls ==
  (StartURLs \X { << <<"k", StrV("v")>>, <<"k", StrV("true")>> >> })
  \cup ({MkURL(FALSE, 1, FALSE)} \X ArgLists)

\* The forms a 'next' URL of the server takes: <<contains '://', contains '?'>>.
NextForms == { <<TRUE, TRUE>>, <<FALSE, FALSE>> }
Absent == [k |-> "absent", u |-> NoneURL]

\* The 'next' values page i can carry; the chain of one call has at most
\* MaxPages pages.
NextVals(i, more) ==
  { Absent, [k |-> "empty", u |-> EmptyURL] }
  \cup (IF more THEN { [k |-> "url", u |-> MkURL(f[1], i + 1, f[2])] : f \in NextForms }
        ELSE {})

\* The records of page i.
DataOf(i, n) == [j \in 1..n |-> <<i, j>>]

\* The JSON bodies the server sends for the i-th request: a page with
\* 'data', a dict without 'data', the empty dict, and (for a question) a
\* record with a 'name'.
Bodies(i, more, named) ==
  { Dict(TRUE, DataOf(i, n), nx, "-", FALSE) : n \in 1..MaxData, nx \in NextVals(i, more) }
  \cup { Dict(FALSE, <<>>, nx, "-", TRUE) : nx \in NextVals(i, more) }
  \cup { Dict(FALSE, <<>>, Absent, "-", FALSE) }
  \cup (IF named THEN { Dict(FALSE, <<>>, Absent, nm, TRUE) : nm \in Names } ELSE {})

\* What urlopen yields for the i-th request of a call: code 500 stands for
\* an HTTPError raised by urlopen, 204 carries no body.
Responses(i, more, named) ==
  { [code |-> 500, body |-> EmptyList], [code |-> 204, body |-> EmptyList] }
  \cup { [code |-> 200, body |-> b] : b \in Bodies(i, more, named) }
  \cup { [code |-> 429, body |-> Dict(TRUE, DataOf(i, 1), nx, "-", FALSE)] :
           nx \in {Absent} \cup (IF more THEN {[k |-> "url", u |-> MkURL(TRUE, i + 1, TRUE)]}
                                 ELSE {}) }

\* ------------------------------------------------------------------ state
VARIABLES
  tokenfile,        \* the token file read by __init__
  token,            \* self.token
  dryrun,           \* self.dryrun
  http_error_hook,  \* self.http_error_hook is set
  qname_cache,      \* self.qname_cache: q_id -> name, "-" when q_id is not a key
  pc,               \* "idle", "call_api" (inside the loop) or "return"
  op,               \* the operation in progress
  qid,              \* the q_id of get_question_name in progress (0: none)
  method, url, arglist, all_pages, use_JSON_data,   \* call_api's frame
  entries,          \* call_api's entries
  raised,           \* "-", "HTTPError" or "AttributeError" leaving call_api
  result,           \* what the operation returned to its caller
  out,              \* what the operation printed / handed to the hook
  sent,             \* the requests handed to urlopen by the operation
  expected,         \* history: the 'data' of the pages parsed, concatenated
  allData,          \* history: every response so far was a page with 'data'
  last,             \* history: the latest response urlopen yielded
  url0,             \* history: the url call_api was entered with (None: not entered)
  obtained,         \* history: the first name the server gave for a q_id
  lookups,          \* history: successful lookup requests per q_id
  cli               \* the command-line run: main's position, args, what it printed

vars == << tokenfile, token, dryrun, http_error_hook, qname_cache, pc, op, qid,
           method, url, arglist, all_pages, use_JSON_data, entries, raised,
           result, out, sent, expected, allData, last, url0, obtained, lookups, cli >>

client == << tokenfile, token, dryrun, http_error_hook >>
frame == << method, url, arglist, all_pages, use_JSON_data >>
history == << obtained, lookups >>

\* The command-line run before main is entered.
NoRun == [pc |-> "shell", flags |-> {}, nargs |-> 0, all |-> FALSE, dryrun |-> FALSE,
          cmd |-> "-", todo |-> 0, ret |-> "-", msgs |-> <<>>]

NoLast == [code |-> 0, body |-> EmptyList]
StrResult(s) == [kind |-> "str", hasData |-> FALSE, data |-> <<>>,
                 next |-> Absent, name |-> s, other |-> FALSE]
Raise(e) == [kind |-> e, hasData |-> FALSE, data |-> <<>>,
             next |-> Absent, name |-> "-", other |-> FALSE]

Pending == Raise("pending")      \* the operation has not returned yet

Init ==
  /\ tokenfile \in TokenFiles
  /\ token = init_token(tokenfile)
  /\ dryrun = FALSE
  /\ http_error_hook = FALSE
  /\ qname_cache = [q \in Qids |-> "-"]
  /\ pc = "idle"
  /\ op = "-"
  /\ qid = 0
  /\ method = "-"
  /\ url = NoneURL
  /\ arglist = <<>>
  /\ all_pages = FALSE
  /\ use_JSON_data = FALSE
  /\ entries = EmptyList
  /\ raised = "-"
  /\ result = NoneValue
  /\ out = <<>>
  /\ sent = <<>>
  /\ expected = <<>>
  /\ allData = TRUE
  /\ last = NoLast
  /\ url0 = NoneURL
  /\ obtained = [q \in Qids |-> "-"]
  /\ lookups = [q \in Qids |-> 0]
  /\ cli = NoRun

\* ------------------------------------------------------------- operations
\* hr.simulate(sim)
simulate(sim) ==
  /\ pc = "idle"
  /\ dryrun # sim
  /\ dryrun' = sim
  /\ UNCHANGED << tokenfile, token, http_error_hook, qname_cache, pc, op, qid, frame,
                  entries, raised, result, out, sent, expected, allData, last, url0, history, cli >>

\* hr.http_error_hook = f / None
set_http_error_hook(h) ==
  /\ pc = "idle"
  /\ http_error_hook # h
  /\ http_error_hook' = h
  /\ UNCHANGED << tokenfile, token, dryrun, qname_cache, pc, op, qid, frame,
                  entries, raised, result, out, sent, expected, allData, last, url0, history, cli >>

\* Entry of call_api from operation o: the frame is set up, entries = [],
\* and the loop is entered when url is true.
enter_call_api(o, m, u, args, ap, uj) ==
  /\ op' = o
  /\ method' = m
  /\ url' = u
  /\ arglist' = args
  /\ all_pages' = ap
  /\ use_JSON_data' = uj
  /\ entries' = EmptyList
  /\ raised' = "-"
  /\ result' = Pending
  /\ out' = <<>>
  /\ sent' = <<>>
  /\ expected' = <<>>
  /\ allData' = TRUE
  /\ last' = NoLast
  /\ url0' = u
  /\ pc' = IF TruthyURL(u) THEN "call_api" ELSE "return"

\* An operation that returns value r at once, without entering call_api.
return_at_once(o, r, msgs) ==
  /\ op' = o
  /\ result' = r
  /\ out' = msgs
  /\ sent' = <<>>
  /\ entries' = EmptyList
  /\ raised' = "-"
  /\ expected' = <<>>
  /\ allData' = TRUE
  /\ last' = NoLast
  /\ url0' = NoneURL
  /\ pc' = "idle"
  /\ UNCHANGED frame

\* The argument list get passes on: the fields are appended as a pair.
get_arglist(args, fields) ==
  IF fields # "-" THEN Append(args, <<"fields", StrV(fields)>>) ELSE args

get(u, args, fields, ap) ==
  /\ pc = "idle"
  /\ enter_call_api("get", "GET", u, get_arglist(args, fields), ap, FALSE)
  /\ qid' = 0
  /\ UNCHANGED << client, qname_cache, history, cli >>

\* put without the dry-run test.
put_ignores_dryrun(u, args) ==
  /\ pc = "idle"
  /\ enter_call_api("put", "PUT", u, args, FALSE, TRUE)
  /\ qid' = 0
  /\ UNCHANGED << client, qname_cache, history, cli >>

put(u, args) ==
  /\ pc = "idle"
  /\ IF dryrun THEN return_at_once("put", EmptyList, <<"DRY RUN: would have PUT">>)
     ELSE enter_call_api("put", "PUT", u, args, FALSE, TRUE)
  /\ qid' = 0
  /\ UNCHANGED << client, qname_cache, history, cli >>

post(u, args) ==
  /\ pc = "idle"
  /\ IF dryrun THEN return_at_once("post", EmptyList, <<"DRY RUN: would have POSTed">>)
     ELSE enter_call_api("post", "POST", u, args, FALSE, TRUE)
  /\ qid' = 0
  /\ UNCHANGED << client, qname_cache, history, cli >>

patch(u, args) ==
  /\ pc = "idle"
  /\ IF dryrun THEN return_at_once("patch", EmptyList, <<"DRY RUN: would have PATCHed">>)
     ELSE enter_call_api("patch", "PATCH", u, args, FALSE, FALSE)
  /\ qid' = 0
  /\ UNCHANGED << client, qname_cache, history, cli >>

delete(u, args) ==
  /\ pc = "idle"
  /\ IF dryrun THEN return_at_once("delete", EmptyList, <<"DRY RUN: would have DELETEd">>)
     ELSE enter_call_api("delete", "DELETE", u, args, FALSE, FALSE)
  /\ qid' = 0
  /\ UNCHANGED << client, qname_cache, history, cli >>

options(u, args) ==
  /\ pc = "idle"
  /\ enter_call_api("options", "OPTIONS", u, args, FALSE, FALSE)
  /\ qid' = 0
  /\ UNCHANGED << client, qname_cache, history, cli >>

\* get_question_name without the cache test.
get_question_name_uncached(q) ==
  /\ pc = "idle"
  /\ enter_call_api("get_question_name", "GET",
                    MkURL(FALSE, QuestionPath(q), FALSE), <<>>, FALSE, FALSE)
  /\ qid' = q
  /\ UNCHANGED << client, qname_cache, history, cli >>

\* get_question_name(q_id): a cached name is returned at once; otherwise
\* show_question -> get('questions/<q_id>') is entered.
get_question_name(q) ==
  /\ pc = "idle"
  /\ IF qname_cache[q] # "-"
       THEN return_at_once("get_question_name", StrResult(qname_cache[q]), <<>>)
       ELSE enter_call_api("get_question_name", "GET",
                           MkURL(FALSE, QuestionPath(q), FALSE), <<>>, FALSE, FALSE)
  /\ qid' = q
  /\ UNCHANGED << client, qname_cache, history, cli >>

\* ------------------------------------------------------ the call_api loop
\* May the server still hand out a 'next' URL on the i-th response?
MorePages(i) == ~all_pages \/ i < MaxPages

\* urlopen raised HTTPError: it leaves call_api.
page_error(r) ==
  /\ raised' = "HTTPError"
  /\ pc' = "return"
  /\ UNCHANGED << url, entries, out, expected >>

\* page_no_content without the break: json.loads of the empty body raises.
page_no_content_parses(r) ==
  /\ raised' = "ValueError"
  /\ pc' = "return"
  /\ UNCHANGED << url, entries, out, expected >>

\* 204 No Content: break.
page_no_content(r) ==
  /\ pc' = "return"
  /\ UNCHANGED << url, entries, out, expected, raised >>

\* page_parsed with a retry on 429: the page is dropped and the same url is
\* requested again.
page_parsed_retries_429(r) ==
  IF r.code = 429 /\ Len(sent) + 1 < MaxPages
    THEN /\ out' = out \o <<"429 Rate Limit Exceeded">>
         /\ pc' = "call_api"
         /\ UNCHANGED << entries, expected, url, raised >>
    ELSE /\ entries' = accumulate(entries, r.body)
         /\ out' = out \o (IF r.code = 429 THEN <<"429 Rate Limit Exceeded">> ELSE <<>>)
                       \o (IF cant_concatenate(entries, r.body) THEN <<"can't concatenate!">> ELSE <<>>)
         /\ expected' = expected \o Records(r.body)
         /\ url' = next_url(r.body, all_pages)
         /\ pc' = IF TruthyURL(next_url(r.body, all_pages)) THEN "call_api" ELSE "return"
         /\ UNCHANGED raised

\* page_parsed with the plausible slip "url is only replaced when the page
\* has a 'next'" (so a page without one is requested again).
page_parsed_keeps_url(r) ==
  /\ entries' = accumulate(entries, r.body)
  /\ out' = out \o (IF r.code = 429 THEN <<"429 Rate Limit Exceeded">> ELSE <<>>)
                \o (IF cant_concatenate(entries, r.body) THEN <<"can't concatenate!">> ELSE <<>>)
  /\ expected' = expected \o Records(r.body)
  /\ url' = IF r.body.next.k = "absent" /\ all_pages /\ Len(sent) < MaxPages
              THEN url ELSE next_url(r.body, all_pages)
  /\ pc' = IF TruthyURL(url') THEN "call_api" ELSE "return"
  /\ UNCHANGED raised

\* The body is parsed and merged into entries, and url advances.
page_parsed(r) ==
  /\ entries' = accumulate(entries, r.body)
  /\ out' = out \o (IF r.code = 429 THEN <<"429 Rate Limit Exceeded">> ELSE <<>>)
                \o (IF cant_concatenate(entries, r.body) THEN <<"can't concatenate!">> ELSE <<>>)
  /\ expected' = expected \o Records(r.body)
  /\ url' = next_url(r.body, all_pages)
  /\ pc' = IF TruthyURL(next_url(r.body, all_pages)) THEN "call_api" ELSE "return"
  /\ UNCHANGED raised

\* One pass of the while loop of call_api: mkrequest builds and sends the
\* request, urlopen yields response r, and r is handled.
call_api_page(r) ==
  /\ sent' = Append(sent, mkrequest(token, method, url, arglist, use_JSON_data))
  /\ arglist' = mkrequest_arglist(arglist, use_JSON_data)
  /\ last' = r
  /\ allData' = (allData /\ r.code \in {200, 429} /\ r.body.hasData)
  /\ IF r.code = 500 THEN page_error(r)
     ELSE IF r.code = 204 THEN page_no_content(r)
     ELSE page_parsed(r)

call_api ==
  /\ pc = "call_api"
  /\ IF token = Unset
       THEN \* 'Bearer ' + self.token raises AttributeError before any request
            /\ raised' = "AttributeError"
            /\ pc' = "return"
            /\ UNCHANGED << url, arglist, entries, out, sent, expected, allData, last >>
       ELSE \E r \in Responses(Len(sent) + 1, MorePages(Len(sent) + 1), op = "get_question_name") :
                 call_api_page(r)
  /\ UNCHANGED << client, qname_cache, op, qid, method, all_pages, use_JSON_data,
                  result, url0, history, cli >>

\* ------------------------------------------- return of the operations
\* get_result with the plausible slip "the pages fetched so far are returned".
get_result_keeps_partial(exc, e) == e

\* What get and options return: the except clause sets result = [].
get_result(exc, e) == IF exc = "HTTPError" THEN EmptyList ELSE e

\* What put, post, patch and delete return: their except clause only
\* prints, so the function ends without a return statement.
modify_result(exc, e) == IF exc = "HTTPError" THEN NoneValue ELSE e

\* What the except clause of operation o reports.
error_report(o) ==
  IF o \in {"get", "options", "get_question_name"} /\ http_error_hook
    THEN <<"http_error_hook(err)">>
    ELSE <<"print(err)">>

\* The name get_question_name returns for the record r that show_question gave.
question_name(r) == IF Truthy(r) /\ r.name # "-" THEN r.name ELSE "{unknown}"
is_named(r) == Truthy(r) /\ r.name # "-"

\* cache_store with the slip "whatever name is returned is remembered":
\* a failed lookup leaves '{unknown}' in the cache.
cache_store_any(cache, q, r) == [cache EXCEPT ![q] = question_name(r)]

\* qname_cache after get_question_name(q) got record r from show_question.
cache_store(cache, q, r) == IF is_named(r) THEN [cache EXCEPT ![q] = r.name] ELSE cache

\* call_api has returned or raised: the operation's try/except finishes it.
return ==
  /\ pc = "return"
  /\ pc' = "idle"
  /\ out' = IF raised = "HTTPError" THEN out \o error_report(op) ELSE out
  /\ IF raised = "AttributeError"
       THEN /\ result' = Raise("AttributeError")
            /\ UNCHANGED << qname_cache, history >>
     ELSE IF op \in {"get", "options"}
       THEN /\ result' = get_result(raised, entries)
            /\ UNCHANGED << qname_cache, history >>
     ELSE IF op \in {"put", "post", "patch", "delete"}
       THEN /\ result' = modify_result(raised, entries)
            /\ UNCHANGED << qname_cache, history >>
     ELSE LET r == get_result(raised, entries) IN
          /\ result' = StrResult(question_name(r))
          /\ qname_cache' = cache_store(qname_cache, qid, r)
          /\ IF is_named(r)
               THEN /\ obtained' = [obtained EXCEPT ![qid] = IF @ = "-" THEN r.name ELSE @]
                    /\ lookups' = [lookups EXCEPT ![qid] = IF @ < MaxLookups THEN @ + 1 ELSE @]
               ELSE UNCHANGED history
  /\ UNCHANGED << client, op, qid, frame, entries, raised, sent, expected, allData, last, url0, cli >>

Next ==
  \/ \E b \in BOOLEAN : simulate(b)
  \/ \E h \in BOOLEAN : set_http_error_hook(h)
  \/ \E c \in GetCalls : get(c[1], c[2], c[3], c[4])
  \/ \E c \in ArgCalls : put(c[1], c[2])
  \/ \E c \in ArgCalls : post(c[1], c[2])
  \/ \E c \in ArgCalls : patch(c[1], c[2])
  \/ \E c \in ArgCalls : delete(c[1], c[2])
  \/ \E c \in ArgCalls : options(c[1], c[2])
  \/ call_api
  \/ return

Spec == Init /\ [][Next]_vars

\* The client used only to look up question names.
NextCache ==
  \/ \E h \in BOOLEAN : set_http_error_hook(h)
  \/ \E q \in Qids : get_question_name(q)
  \/ call_api
  \/ return

SpecCache == Init /\ [][NextCache]_vars

TypeOK ==
  /\ pc \in {"idle", "call_api", "return"}
  /\ raised \in {"-", "HTTPError", "AttributeError"}
  /\ Len(sent) <= MaxPages

\* ------------------------------------------------------ the command line
\* The command flags in the order process_generic_commands tests them.
Order == << "showquestion", "listquestions", "user", "listusers", "listtests",
            "templates", "showtemplate", "showtest", "testscore", "listcandidates",
            "candidatedetails", "plagiarism", "invite", "get", "post", "put", "delete" >>
Commands == { Order[i] : i \in 1..Len(Order) }

\* The flag whose branch process_generic_commands takes ("-": none is set).
first_flag(flags) ==
  IF flags = {} THEN "-"
  ELSE Order[CHOOSE i \in 1..Len(Order) :
               Order[i] \in flags /\ \A j \in 1..(i - 1) : Order[j] \notin flags]

\* The k of the test 'len(remargs) < k' in the branch of each command (the
\* branches of the four list commands have no test).
min_args ==
  [c \in Commands |->
     IF c \in {"listquestions", "listusers", "listtests", "templates"} THEN 0
     ELSE IF c = "invite" THEN 2
     ELSE 1]

\* The usage line the branch of a command prints.
Usage ==
  [showquestion |-> "Usage: --showquestion {question_id}",
   user |-> "Usage: --user {user_id}",
   showtemplate |-> "Usage: --showtemplate {template_id}",
   showtest |-> "Usage: --showtest {test_id}",
   testscore |-> "Usage: --testscore {test_id} {candidate_id}",
   listcandidates |-> "Usage: --listcandidates {test_id}",
   candidatedetails |-> "Usage: --candidate_details {candidate_id}",
   plagiarism |-> "Usage: --plagiarism {test_id}",
   invite |-> "Usage: --invite {test_id} {email} [{email} ...]",
   get |-> "Usage: --get {endpoint} [arg1 val1 [arg2 val2 ...]]",
   post |-> "Usage: --post {endpoint} [arg1 val1 [arg2 val2 ...]]",
   put |-> "Usage: --put {endpoint} [arg1 val1 [arg2 val2 ...]]",
   delete |-> "Usage: --delete {endpoint} [arg1 val1 [arg2 val2 ...]]"]

RawCommands == {"get", "post", "put", "delete"}
\* The commands whose display function calls hr.simulate(args.dryrun).
DryRunCommands == {"invite", "post", "put", "delete"}
\* The commands whose display function iterates over a list of records.
ListCommands == {"listquestions", "listusers", "listtests", "templates",
                 "listcandidates", "candidatedetails", "plagiarism"}

\* The endpoint a command requests.
Endpoint(cmd) == MkURL(FALSE, 200 + (CHOOSE i \in 1..Len(Order) : Order[i] = cmd), FALSE)

\* params of the raw commands: list(zip(arglist[0::2], arglist[1::2])) of
\* the n - 1 arguments after the endpoint.
raw_params(n) == [i \in 1..((n - 1) \div 2) |-> <<"k", StrV("v")>>]

\* The API call a display function makes for its command:
\* <<operation, method, arglist, all_pages, use_JSON_data>>.
display_call(cmd, n, all) ==
  IF cmd = "get" THEN << "get", "GET", raw_params(n), all, FALSE >>
  ELSE IF cmd = "post" THEN << "post", "POST", raw_params(n), FALSE, TRUE >>
  ELSE IF cmd = "put" THEN << "put", "PUT", raw_params(n), FALSE, TRUE >>
  ELSE IF cmd = "delete" THEN << "delete", "DELETE", raw_params(n), FALSE, FALSE >>
  ELSE IF cmd = "invite"
    THEN << "post", "POST",
            << <<"email", StrV("cand")>>, <<"send_email", BoolV(TRUE)>> >>, FALSE, TRUE >>
  ELSE IF cmd = "plagiarism"
    THEN << "get", "GET", << <<"plagiarism_status", StrV("true")>> >>, TRUE, FALSE >>
  ELSE << "get", "GET", <<>>, cmd \in ListCommands, FALSE >>

\* What a display function returns (or raises) once its API call gave r.
\* A dict with other keys than 'data' is a full record of the resource, the
\* records under 'data' are full records with no questions to look up; what
\* is printed from them is not modelled.
display_result(cmd, r) ==
  IF r.kind = "AttributeError" THEN "AttributeError"
  ELSE IF cmd \in RawCommands \cup {"invite"} THEN "True"
  ELSE IF cmd = "showquestion"
    \* print_question(q_info, args.verbose) lacks its third argument
    THEN (IF ~Truthy(r) THEN "True" ELSE "TypeError")
  ELSE IF cmd \in {"showtemplate", "showtest"}
    \* 'if t_info' / the placeholder of get_test
    THEN (IF ~Truthy(r) \/ r.other THEN "True" ELSE "KeyError")
  ELSE IF cmd \in {"user", "testscore"}
    \* u_info['id'], c_info['percentage_score'] of a list
    THEN (IF r.kind = "list" THEN "TypeError"
          ELSE IF r.other THEN "True" ELSE "KeyError")
  \* the list commands: the keys of a dict without 'data' are iterated
  ELSE (IF ~r.hasData /\ Truthy(r) THEN "TypeError" ELSE "True")

MaxArgs == 3         \* most positional arguments on the command line

\* The sets of command flags given: none, one, or two neighbours of Order.
FlagSets ==
  { {} } \cup { {Order[i]} : i \in 1..Len(Order) }
         \cup { {Order[i], Order[i + 1]} : i \in 1..(Len(Order) - 1) }

\* The command lines run: --all goes with --get, --dryrun with a command
\* that changes something on the server.
CommandLines ==
  { c \in [flags : FlagSets, nargs : 0..MaxArgs, all : BOOLEAN, dryrun : BOOLEAN] :
      /\ c.all => "get" \in c.flags
      /\ c.dryrun => c.flags \cap DryRunCommands # {} }

program == << tokenfile, token, dryrun, http_error_hook, qname_cache, pc, op, qid,
              method, url, arglist, all_pages, use_JSON_data, entries, raised,
              result, out, sent, expected, allData, last, url0, obtained, lookups >>

\* parse_arguments: without any argument the usage is printed and the
\* program exits; otherwise the flags and the remaining arguments are kept.
parse_arguments(c) ==
  /\ cli.pc = "shell"
  /\ cli' = IF c.flags = {} /\ c.nargs = 0
              THEN [cli EXCEPT !.pc = "done", !.msgs = <<"usage">>]
              ELSE [cli EXCEPT !.pc = "parsed", !.flags = c.flags, !.nargs = c.nargs,
                               !.all = c.all, !.dryrun = c.dryrun]
  /\ UNCHANGED program

\* process_generic_commands returns (or raises) ret having printed msgs.
commands_return(cmd, ret, msgs) ==
  /\ cli' = [cli EXCEPT !.pc = "returned", !.cmd = cmd, !.ret = ret,
                        !.msgs = cli.msgs \o msgs]
  /\ UNCHANGED program

\* The API call of a display function.
display_api_call(cmd, dry) ==
  LET c == display_call(cmd, cli.nargs, cli.all)
  IN  IF cmd \in DryRunCommands /\ dry
        THEN return_at_once(c[1], EmptyList, <<"DRY RUN: would have">>)
        ELSE enter_call_api(c[1], c[2], Endpoint(cmd), c[3], c[4], c[5])

\* process_generic_commands(args, remargs): the branch of the first flag
\* set; its argument test; then the display function, which makes a
\* HackerRank object and calls the API.
process_generic_commands ==
  /\ cli.pc = "parsed"
  /\ LET cmd == first_flag(cli.flags)
         n == cli.nargs
     IN  IF cmd = "-" THEN commands_return(cmd, "False", <<>>)
         ELSE IF n < min_args[cmd] THEN commands_return(cmd, "True", <<Usage[cmd]>>)
         ELSE IF cmd = "testscore" /\ n < 2
           THEN commands_return(cmd, "IndexError", <<>>)      \* remargs[1]
         ELSE IF cmd \in RawCommands /\ (n - 1) % 2 # 0
           THEN commands_return(cmd, IF cmd = "get" THEN "None" ELSE "True",
                                <<"must have matched parameter/value pairs">>)
         ELSE /\ cli' = [cli EXCEPT !.pc = "command", !.cmd = cmd,
                                    !.todo = IF cmd = "invite" THEN n - 2 ELSE 0]
              /\ token' = init_token(tokenfile)
              /\ dryrun' = (cmd \in DryRunCommands /\ cli.dryrun)
              /\ http_error_hook' = FALSE
              /\ qname_cache' = [q \in Qids |-> "-"]
              /\ qid' = 0
              /\ display_api_call(cmd, cli.dryrun)
              /\ UNCHANGED << tokenfile, history >>

\* The display function goes on after its API call has returned: the next
\* candidate of display_invite is invited, or the function returns.
display_command ==
  /\ cli.pc = "command"
  /\ pc = "idle"
  /\ IF result.kind # "AttributeError" /\ cli.todo > 0
       THEN /\ cli' = [cli EXCEPT !.todo = cli.todo - 1]
            /\ display_api_call(cli.cmd, dryrun)
            /\ UNCHANGED << client, qname_cache, qid, history >>
       ELSE /\ cli' = [cli EXCEPT !.pc = "returned", !.ret = display_result(cli.cmd, result)]
            /\ UNCHANGED program

\* main: the message is printed when process_generic_commands returned a
\* false value; an exception leaves main.
main ==
  /\ cli.pc = "returned"
  /\ cli' = [cli EXCEPT !.pc = "done",
                        !.msgs = IF cli.ret \in {"False", "None"}
                                   THEN cli.msgs \o <<"This sample interface only supports the built-in display functions.">>
                                   ELSE cli.msgs]
  /\ UNCHANGED program

NextCLI ==
  \/ \E c \in CommandLines : parse_arguments(c)
  \/ process_generic_commands
  \/ call_api
  \/ return
  \/ display_command
  \/ main

SpecCLI == Init /\ [][NextCLI]_vars

\* ================================================================= claims
ModifyOps == {"put", "post", "patch", "delete"}
ModifyMethods == {"PUT", "POST", "PATCH", "DELETE"}
RequestOps == {"get", "options"} \cup ModifyOps

\* Has the operation that just returned reported an HTTP error?
Reported == \E i \in 1..Len(out) : out[i] \in {"print(err)", "http_error_hook(err)"}

\* C1: when the server answers with an HTTP error, each of get, put, post,
\* patch, delete and options reports the error and returns an empty list;
\* the error is not raised to the caller.
C1_HttpErrorYieldsEmptyList ==
  (pc = "idle" /\ op \in RequestOps /\ raised = "HTTPError")
    => (Reported /\ result = EmptyList)

\* Is the sequence of records strictly increasing in <<page, index>> order?
InPageOrder(d) ==
  \A i, j \in 1..Len(d) :
    i < j => (d[i][1] < d[j][1] \/ (d[i][1] = d[j][1] /\ d[i][2] < d[j][2]))

\* C2: a get with all_pages=True over a chain of pages that each carry
\* 'data' returns a result whose 'data' is the concatenation, in page
\* order, of the 'data' of every page served: each record once, in order.
C2_AllPagesConcatenated ==
  (pc = "idle" /\ op = "get" /\ all_pages /\ raised = "-" /\ allData /\ Len(sent) >= 1)
    => /\ result.kind = "dict" /\ result.hasData
       /\ result.data = expected
       /\ InPageOrder(result.data)
       /\ \A i \in 1..Len(sent) : \E k \in 1..Len(result.data) : result.data[k][1] = i

C2_Witness ==
  /\ pc = "idle" /\ op = "get" /\ all_pages /\ raised = "-" /\ allData
  /\ Len(sent) >= 3
  /\ Len(result.data) >= 3

\* C3 as stated: after an HTTP error on a later page of a paginated get,
\* the records of the pages fetched before it are in the returned result.
C3_PartialResultKept ==
  (pc = "idle" /\ op = "get" /\ all_pages /\ raised = "HTTPError" /\ Len(sent) >= 2)
    => Records(result) = expected

\* C3 as amended: an HTTP error on a later page of a paginated get ends the
\* fetch; get reports the error and returns an empty list, so the records
\* of the pages fetched before the failing page are not in the result.
C3_PartialResultDropped ==
  (pc = "idle" /\ op = "get" /\ all_pages /\ raised = "HTTPError" /\ Len(sent) >= 2)
    => /\ result = EmptyList
       /\ Reported
       /\ \A k \in 1..Len(expected) : \A m \in 1..Len(Records(result)) :
             Records(result)[m] # expected[k]

C3_Witness ==
  /\ pc = "idle" /\ op = "get" /\ all_pages /\ raised = "HTTPError"
  /\ Len(sent) >= 3
  /\ Len(expected) >= 2
  /\ Records(entries) = expected

\* A step in which an operation is called (not a change of a client setting).
OpCalled ==
  pc = "idle" /\ dryrun' = dryrun /\ http_error_hook' = http_error_hook

\* C4: while dry-run mode is on, a call of put, post, patch or delete
\* returns an empty list at once and no PUT, POST, PATCH or DELETE request
\* is ever handed to urlopen.
C4_DryRunSendsNothing ==
  [][ dryrun =>
        /\ (OpCalled /\ op' \in ModifyOps)
             => (pc' = "idle" /\ sent' = <<>> /\ result' = EmptyList)
        /\ (Len(sent') > Len(sent))
             => sent'[Len(sent')].method \notin ModifyMethods ]_vars

C4_Witness ==
  /\ dryrun /\ pc = "idle" /\ op \in ModifyOps
  /\ sent = <<>> /\ result = EmptyList
  /\ Len(out) = 1

\* C5: every request sent carries Authorization: 'Bearer ' + the stripped
\* contents of the token file read at construction.
C5_BearerTokenOnEveryRequest ==
  \A i \in 1..Len(sent) :
    /\ tokenfile # Unreadable
    /\ sent[i].headers.auth = <<"Bearer", strip(tokenfile)>>

C5_Witness ==
  /\ Len(sent) >= 2
  /\ sent[2].url.abs
  /\ \E i \in 1..Len(sent) : sent[i].method = "GET"

\* call_api was entered with a url to request and a token to send.
Entered == TruthyURL(url0) /\ token # Unset /\ pc \in {"return", "idle"}

\* C6: call_api with all_pages=False sends exactly one request and returns
\* that single page, whatever 'next' the response holds; a second request
\* is sent only when all_pages=True.
C6_SinglePageUnlessAllPages ==
  /\ (Entered /\ ~all_pages)
       => /\ Len(sent) = 1
          /\ (last.code \in {200, 429}) => entries = last.body
          /\ (last.code \in {200, 429} /\ pc = "idle" /\ op \in RequestOps)
               => result = last.body
  /\ (pc = "call_api" /\ ~all_pages) => sent = <<>>
  /\ Len(sent) > 1 => all_pages

C6_Witness ==
  /\ Entered /\ ~all_pages /\ pc = "idle" /\ op = "get"
  /\ last.code = 200 /\ last.body.next.k = "url"
  /\ result = last.body
  /\ Len(sent) = 1

\* The keys of an argument list.
Keys(args) == { args[i][1] : i \in 1..Len(args) }

\* Is obj the JSON object of the argument list: one member per key, holding
\* the value of the last pair with that key?
IsObjectOf(obj, args) ==
  /\ { m[1] : m \in obj } = Keys(args)
  /\ \A m1, m2 \in obj : m1[1] = m2[1] => m1 = m2
  /\ \A m \in obj : \E i \in 1..Len(args) :
       /\ args[i][1] = m[1]
       /\ \A j \in (i+1)..Len(args) : args[j][1] # m[1]
       /\ m[2] = (IF args[i][2].t = "str" /\ args[i][2].s = "true"
                    THEN BoolV(TRUE) ELSE args[i][2])

\* Is q the query string of the argument list: its pairs in order, as text?
IsQueryOf(q, args) ==
  /\ Len(q) = Len(args)
  /\ \A i \in 1..Len(args) :
       /\ q[i][1] = args[i][1]
       /\ q[i][2] = (IF args[i][2].t = "int" THEN ToString(args[i][2].n) ELSE args[i][2].s)

\* C7: put and post send their arguments as one JSON object in the body,
\* with Content-Type application/json, and add no query string to the URL;
\* get sends its arguments url-encoded in the query string (of a URL that
\* has none yet) and sends no body.
C7_JsonBodyOrQueryString ==
  \A i \in 1..Len(sent) :
    /\ sent[i].method \in {"PUT", "POST"}
         => /\ sent[i].data.kind = "json"
            /\ IsObjectOf(sent[i].data.json, arglist)
            /\ sent[i].headers.ctype = "application/json"
            /\ sent[i].url.query = <<>>
            /\ sent[i].url.hasq = url0.hasq
    /\ sent[i].method = "GET"
         => /\ sent[i].data = NoBody
            /\ sent[i].headers.ctype = "-"
            /\ sent[i].url.hasq
            /\ sent[i].url.query # <<>> => IsQueryOf(sent[i].url.query, arglist)
            /\ (i = 1 /\ ~url0.hasq) => sent[i].url.query # <<>>

C7_Witness ==
  /\ pc = "idle" /\ op = "post" /\ Len(sent) = 1
  /\ Len(arglist) = 2 /\ Cardinality(sent[1].data.json) = 1
  /\ ~url0.hasq

\* C8: once get_question_name has obtained the name of a question id from
\* the server, every later call for that id returns that name and sends no
\* request; at most one successful lookup is made per question id.
C8_NameLookedUpOnce ==
  /\ \A q \in Qids : lookups[q] <= 1
  /\ (op = "get_question_name" /\ pc # "idle") => obtained[qid] = "-"
  /\ (op = "get_question_name" /\ pc = "idle" /\ obtained[qid] # "-")
       => /\ result = StrResult(obtained[qid])
          /\ Len(sent) <= 1
          /\ Len(sent) = 1 => (last.code = 200 /\ last.body.name = obtained[qid])

C8_Witness ==
  /\ op = "get_question_name" /\ pc = "idle"
  /\ obtained[qid] # "-"
  /\ sent = <<>>
  /\ result = StrResult(obtained[qid])
  /\ \E q \in Qids : q # qid /\ obtained[q] \notin {"-", obtained[qid]}

\* C9: call_api with all_pages=True goes on only after a response that is
\* not a 204 and holds a non-empty 'next', so it stops at the first response
\* with status 204, without 'next' or with an empty 'next'; it requests the
\* pages of the chain one after the other, each once, and then returns.
C9_StopsAtEndOfChain ==
  /\ (pc = "call_api" /\ Len(sent) >= 1)
       => (last.code \in {200, 429} /\ last.body.next.k = "url" /\ url = last.body.next.u)
  /\ (Entered /\ all_pages /\ raised = "-")
       => /\ Len(sent) >= 1
          /\ last.code = 204 \/ last.body.next.k \in {"absent", "empty"}
  /\ all_pages => \A i \in 1..Len(sent) : sent[i].url.path = i
  /\ Len(sent) <= MaxPages

C9_Witness ==
  /\ pc = "idle" /\ op = "get" /\ all_pages /\ raised = "-"
  /\ Len(sent) = 3
  /\ last.code = 200 /\ last.body.next.k = "empty"

IsPrefix(a, b) == Len(a) <= Len(b) /\ SubSeq(b, 1, Len(a)) = a

\* C10: while pages are fetched the accumulated result never loses a
\* record; a later page without 'data' is skipped with "can't concatenate!",
\* leaves the result unchanged, and its 'next' is still followed.
C10_NoRecordLost ==
  [][ (pc = "call_api" /\ Len(sent') = Len(sent) + 1)
        => /\ IsPrefix(Records(entries), Records(entries'))
           /\ (Truthy(entries) /\ last'.code \in {200, 429} /\ ~last'.body.hasData)
                => /\ entries' = entries
                   /\ out' = out \o <<"can't concatenate!">>
                   /\ (all_pages /\ last'.body.next.k = "url")
                        => (url' = last'.body.next.u /\ pc' = "call_api") ]_vars

C10_Witness ==
  /\ pc = "idle" /\ op = "get" /\ all_pages /\ raised = "-"
  /\ Len(sent) = 3
  /\ out = <<"can't concatenate!">>
  /\ Len(Records(result)) >= 2
  /\ \E k \in 1..Len(result.data) : result.data[k][1] = 3

C12_NoContentEndsFetch ==
  last.code = 204
    => /\ pc \in {"return", "idle"}
       /\ raised = "-"
       /\ Records(entries) = expected
       /\ ~Reported
       /\ Len(sent) = 1 => entries = EmptyList
       /\ (pc = "idle" /\ op \in RequestOps) => result = entries

C12_Witness ==
  /\ last.code = 204 /\ pc = "idle" /\ op = "get" /\ all_pages
  /\ Len(sent) = 3
  /\ Len(Records(result)) >= 2
  /\ result = entries

\* C13: mkrequest requests a URL that contains '://' as it is and puts the
\* API base URL in front of any other; for a GET the encoded arguments
\* become the query string only when the URL has no '?'.  A URL with '://'
\* and '?' (the server's 'next') is therefore requested exactly as given.
C13_UrlBuiltFromGivenUrl ==
  [][ (pc = "call_api" /\ Len(sent') = Len(sent) + 1)
        => LET req == sent'[Len(sent')]
           IN  /\ req.url.none = url.none
               /\ req.url.abs = url.abs
               /\ req.url.path = url.path
               /\ req.url.pre = ~url.abs
               /\ IF method = "GET" /\ ~url.hasq
                    THEN /\ req.url.hasq
                         /\ req.url.query = urlencode(arglist')
                    ELSE /\ req.url.hasq = url.hasq
                         /\ req.url.query = url.query
               /\ (url.abs /\ url.hasq) => req.url = url ]_vars

C13_Witness ==
  /\ pc = "idle" /\ op = "get" /\ all_pages /\ raised = "-"
  /\ Len(sent) = 2
  /\ ~url0.abs /\ ~url0.hasq
  /\ sent[1].url.pre /\ sent[1].url.query = <<<<"limit", "50">>>>
  /\ sent[2].url = MkURL(TRUE, 2, TRUE)
  /\ arglist = <<<<"limit", IntV(MAX_PER_PAGE)>>>>

\* The number of 'limit' pairs of an argument list.
LimitPairs(args) == Cardinality({ i \in 1..Len(args) : args[i][1] = "limit" })

\* C14: a request built without a JSON body has exactly one 'limit' pair in
\* its argument list: the caller's pair is kept, otherwise ('limit', 50) is
\* appended, once for all the pages of the call.
C14_OneLimitPair ==
  [][ (pc = "call_api" /\ Len(sent') = Len(sent) + 1 /\ ~use_JSON_data)
        => LET req == sent'[Len(sent')]
           IN  /\ arglist' = (IF has_limit(arglist) THEN arglist
                              ELSE Append(arglist, <<"limit", IntV(MAX_PER_PAGE)>>))
               /\ LimitPairs(arglist') = 1
               /\ Len(sent) >= 1 => arglist' = arglist
               /\ (method = "GET" /\ ~url.hasq) => req.url.query = urlencode(arglist')
               /\ method # "GET" => req.data = FormBody(urlencode(arglist')) ]_vars

C14_Witness ==
  /\ pc = "idle" /\ op = "get" /\ all_pages /\ raised = "-"
  /\ Len(sent) = 3
  /\ \A i \in 1..3 : ~sent[i].url.abs /\ sent[i].url.query = <<<<"limit", "50">>>>
  /\ arglist = <<<<"limit", IntV(MAX_PER_PAGE)>>>>

\* The response of the server held a record with a 'name'.
NameReceived ==
  /\ raised = "-" /\ Len(sent) = 1
  /\ last.code \in {200, 429}
  /\ Truthy(last.body) /\ last.body.name # "-"

\* C15: the cache gets an entry for a question id only from a response
\* with a 'name' for that id, and a stored entry never changes; a failed
\* lookup returns '{unknown}' and leaves the cache as it was, so only a
\* cached id is answered without sending a request.
C15_CacheHoldsOnlyReceivedNames ==
  [][ /\ \A q \in Qids : qname_cache[q] # "-" => qname_cache'[q] = qname_cache[q]
      /\ \A q \in Qids :
           (qname_cache[q] = "-" /\ qname_cache'[q] # "-")
             => /\ pc = "return" /\ op = "get_question_name" /\ qid = q
                /\ NameReceived
                /\ sent[1].url.path = QuestionPath(q)
                /\ qname_cache'[q] = last.body.name
      /\ (pc = "return" /\ op = "get_question_name" /\ raised # "AttributeError"
            /\ ~NameReceived)
           => /\ result' = StrResult("{unknown}")
              /\ qname_cache' = qname_cache
      /\ (pc = "idle" /\ pc' = "idle" /\ << op, qid, result, sent >> # << op', qid', result', sent' >>)
           => /\ qname_cache[qid'] # "-"
              /\ result' = StrResult(qname_cache[qid'])
      /\ (pc = "call_api" /\ op = "get_question_name" /\ token # Unset)
           => /\ Len(sent') = 1
              /\ sent'[1].url.path = QuestionPath(qid) ]_vars

C15_Witness ==
  /\ pc = "idle" /\ op = "get_question_name"
  /\ result = StrResult("{unknown}")
  /\ qname_cache[qid] = "-"
  /\ Len(sent) = 1 /\ last.code = 200 /\ last.body.name = "-"
  /\ \E q \in Qids : q # qid /\ qname_cache[q] # "-"

\* The commands that look up one resource with a GET.
LookupCommands == {"showtest", "user", "showquestion", "showtemplate", "testscore"}

\* C16: when the GET of display_test, display_user, display_question,
\* display_a_template or display_score_details fails with an HTTP error (so
\* that get returns an empty result), the command returns True and raises
\* nothing.
C16_LookupReturnsTrueAfterHttpError ==
  (cli.pc = "returned" /\ cli.cmd \in LookupCommands
     /\ raised = "HTTPError" /\ result = EmptyList)
    => cli.ret = "True"

\* Are n positional arguments too few, or unmatched, for the command?
BadArguments(cmd, n) ==
  IF cmd \in {"testscore", "invite"} THEN n < 2
  ELSE IF cmd \in RawCommands THEN n < 1 \/ (n - 1) % 2 # 0
  ELSE IF cmd \in {"listquestions", "listusers", "listtests", "templates"} THEN FALSE
  ELSE n < 1

\* C17: a command run with too few or unmatched positional arguments prints
\* its usage line or an error message and sends no API request.
C17_BadArgumentsReported ==
  (cli.pc \in {"returned", "done"} /\ cli.cmd \in Commands
     /\ BadArguments(cli.cmd, cli.nargs))
    => /\ sent = <<>>
       /\ Len(cli.msgs) >= 1
       /\ cli.msgs[1] \in {Usage[cli.cmd], "must have matched parameter/value pairs"}

\* C18: process_generic_commands runs the command of the first flag set in
\* its order of tests and no other; when it returns, its value is true
\* exactly when some command flag was set, so main prints its message only
\* when no command flag was given.
C18_TrueExactlyWhenFlagSet ==
  /\ cli.pc \in {"command", "returned"} => cli.cmd = first_flag(cli.flags)
  /\ (cli.pc \in {"returned", "done"} /\ cli.ret \in {"True", "False", "None"})
       => /\ cli.ret = "True" <=> cli.flags # {}
          /\ (cli.pc = "done" /\ cli.flags # {})
               => \A i \in 1..Len(cli.msgs) :
                    cli.msgs[i] # "This sample interface only supports the built-in display functions."

====
